---- MODULE Spec2Model ----
(***************************************************************************)
(* A model of the Texas Hold'em engine of this repository:                 *)
(*   - the betting engine of texasHoldem.py (start_hand and the methods it *)
(*     calls) driven by the hand loop of gameManager.py, with Player.bet   *)
(*     of player.py;                                                       *)
(*   - the hand evaluator of handEvaluator.py (evaluate_hand and           *)
(*     compare_hands).                                                     *)
(* The decision policies are arbitrary: every (action, amount) pair a      *)
(* policy can return is offered at each decision.  The shuffle is random:  *)
(* the engine specification draws the score of each showdown seat from a   *)
(* set of scores, the evaluator specification evaluates dealt cards.       *)
(***************************************************************************)
EXTENDS Integers, Sequences, FiniteSets, TLC

(***************************************************************************)
(* Bounds of the model and constants of the program                        *)
(***************************************************************************)

\* The table of the model: the seats of self.players, in seat order.
NumPlayers == 3

\* Cursor steps explored in one betting round: the while loop of
\* _betting_round has no bound of its own.
MaxActions == 6

\* TexasHoldem.__init__ defaults.
small_blind == 10

big_blind == 20

\* The stacks the seats are constructed with (Player.__init__'s chips), in
\* seat order: the tables the model starts from.
StartingTables == { <<100, 10, 30>>, <<100, 40, 10>>, <<30, 10, 5>>, <<40, 40, 40>>, <<100, 100, 30>> }

\* The stack of a seat beyond those a starting table lists.
ExtraSeatChips == 40

\* The amounts a policy may return beside its action: negative, zero, the big
\* blind (not above the pre-flop bet) and a raise above it.
RaiseAmounts == {-10, 0, 20, 50}

Seats == 0 .. (NumPlayers - 1)

\* Python's None for last_raiser.
None == -1

\* No seat was asked in the last step.
NoAnswer == <<>>

\* action.py
FOLD == "fold"

CHECK == "check"

CALL == "call"

RAISE == "raise"

ALL_IN == "all_in"

Action == {FOLD, CHECK, CALL, RAISE, ALL_IN}

Min(a, b) == IF a <= b THEN a ELSE b

Max(a, b) == IF a >= b THEN a ELSE b

\* A score as evaluate_hand returns it: (hand rank, kickers).
Score(r, k) == [rank |-> r, kickers |-> k]

RECURSIVE SumSeq(_)
SumSeq(s) == IF s = <<>> THEN 0 ELSE Head(s) + SumSeq(Tail(s))

VARIABLES
    players,          \* seat -> [chips, current_bet, folded, all_in]
    pot,              \* self.pot
    current_bet,      \* self.current_bet
    min_raise,        \* self.min_raise
    dealer_position,  \* self.dealer_position
    community_cards,  \* number of cards in self.community_cards
    hand_history,     \* self.hand_history: records of winners and pot
    pc,               \* where start_hand stands
    round,            \* index into betting_rounds of _run_betting_rounds
    last_raiser,      \* locals of _betting_round
    current_pos,
    actions_taken,
    winners,          \* the list _determine_winner returned (seats)
    paid,             \* the amounts _distribute_pot printed, in order
    start_total,      \* history: the seats' chips when the hand started
    last_aggressor,   \* history: the seat that last increased current_bet
    since_raise,      \* history: cursor steps since current_bet last increased
    answer,           \* history: the seat asked last and what its policy returned
    cards,            \* evaluator: the list handed to evaluate_hand
    score,            \* evaluator: what evaluate_hand returned for it
    reorders,         \* evaluator: how often the list was reordered
    hands             \* evaluator: scores returned, kept to be compared

engine_vars == <<players, pot, current_bet, min_raise, dealer_position,
                 community_cards, hand_history, pc, round,
                 last_raiser, current_pos, actions_taken, winners, paid,
                 start_total, last_aggressor, since_raise, answer>>

eval_vars == <<cards, score, reorders, hands>>

vars == <<engine_vars, eval_vars>>

(***************************************************************************)
(* player.py                                                               *)
(***************************************************************************)

\* Player.__init__
NewPlayer(c) == [chips |-> c, current_bet |-> 0, folded |-> FALSE, all_in |-> FALSE]

\* Player.reset_hand
reset_hand(p) == [p EXCEPT !.current_bet = 0, !.folded = FALSE, !.all_in = FALSE]

\* Player.bet without the cap of the amount at the chips held.
bet_uncapped(p, amount) ==
    [player |-> [p EXCEPT !.chips = p.chips - amount,
                          !.current_bet = p.current_bet + amount,
                          !.all_in = IF p.chips - amount = 0 THEN TRUE ELSE p.all_in],
     actual |-> amount]

\* Player.bet: the player after the bet and the amount actually bet.
bet(p, amount) ==
    LET actual_bet == Min(amount, p.chips)
        left == p.chips - actual_bet
    IN  [player |-> [p EXCEPT !.chips = left,
                              !.current_bet = p.current_bet + actual_bet,
                              !.all_in = IF left = 0 THEN TRUE ELSE p.all_in],
         actual |-> actual_bet]

\* Player.is_active
is_active(p) == ~p.folded /\ ~p.all_in

RECURSIVE TotalChipsUpTo(_, _)
TotalChipsUpTo(ps, i) ==
    IF i < 0 THEN 0 ELSE ps[i].chips + TotalChipsUpTo(ps, i - 1)

\* sum(player.chips for player in players)
TotalChips(ps) == TotalChipsUpTo(ps, NumPlayers - 1)

(***************************************************************************)
(* texasHoldem.py: the operations of the engine                            *)
(***************************************************************************)

\* The engine's fields that _execute_action reads and writes.
Table(ps, p, cb, mr) == [players |-> ps, pot |-> p, current_bet |-> cb, min_raise |-> mr]

\* _active_players_count
active_players_count(ps) == Cardinality({i \in Seats : ~ps[i].folded})

\* _post_blinds with the current bet left at the nominal big blind.
post_blinds_nominal(ps, dealer) ==
    LET sb_pos == (dealer + 1) % NumPlayers
        bb_pos == (dealer + 2) % NumPlayers
        sb == bet(ps[sb_pos], small_blind)
        ps1 == [ps EXCEPT ![sb_pos] = sb.player]
        bb == bet(ps1[bb_pos], big_blind)
        ps2 == [ps1 EXCEPT ![bb_pos] = bb.player]
    IN  [players |-> ps2, pot |-> sb.actual + bb.actual, current_bet |-> big_blind]

\* _post_blinds: the small blind, then the big blind; current_bet is
\* assigned twice and keeps the big blind's posting.
post_blinds(ps, dealer) ==
    LET sb_pos == (dealer + 1) % NumPlayers
        bb_pos == (dealer + 2) % NumPlayers
        sb == bet(ps[sb_pos], small_blind)
        ps1 == [ps EXCEPT ![sb_pos] = sb.player]
        bb == bet(ps1[bb_pos], big_blind)
        ps2 == [ps1 EXCEPT ![bb_pos] = bb.player]
    IN  [players |-> ps2, pot |-> sb.actual + bb.actual, current_bet |-> bb.actual]

\* _betting_round, line 127
start_pos(dealer) == (dealer + 3) % NumPlayers

\* _betting_round, lines 130-132
reset_round_bets(ps) ==
    [i \in Seats |-> IF ~ps[i].folded THEN [ps[i] EXCEPT !.current_bet = 0] ELSE ps[i]]

\* The while condition without its second disjunct: every position is
\* visited once and the round ends.
loop_continues_one_pass(taken, raiser, pos) == taken < NumPlayers

\* _betting_round, line 139: the while condition
loop_continues(taken, raiser, pos) ==
    taken < NumPlayers \/ (raiser # None /\ pos # raiser)

\* _betting_round, lines 163-164
next_last_raiser(action, pos, raiser) ==
    IF action = RAISE \/ action = ALL_IN THEN pos ELSE raiser

\* The end of _betting_round with the current bet set to the big blind.
reset_round_to_big_blind(g) == [g EXCEPT !.current_bet = big_blind, !.min_raise = big_blind]

\* _betting_round, lines 169-171: the round is over
reset_round(g) == [g EXCEPT !.current_bet = 0, !.min_raise = big_blind]

\* _execute_action, Action.FOLD
exec_fold(g, i) == [g EXCEPT !.players[i].folded = TRUE]

\* _execute_action, Action.CHECK, with the check of a seat that faces a bet
\* accepted.
exec_check_accepts(g, i) == g

\* _execute_action, Action.CHECK
exec_check(g, i) ==
    IF g.current_bet > g.players[i].current_bet
    THEN [g EXCEPT !.players[i].folded = TRUE]
    ELSE g

\* _execute_action, Action.CALL, with the amount asked for, not the amount
\* the player could bet, added to the pot.
exec_call_adds_call_amount(g, i) ==
    LET call_amount == g.current_bet - g.players[i].current_bet
        b == bet(g.players[i], call_amount)
    IN  [g EXCEPT !.players[i] = b.player, !.pot = g.pot + call_amount]

\* _execute_action, Action.CALL (and the invalid raise, lines 199-201)
exec_call(g, i) ==
    LET call_amount == g.current_bet - g.players[i].current_bet
        b == bet(g.players[i], call_amount)
    IN  [g EXCEPT !.players[i] = b.player, !.pot = g.pot + b.actual]

\* _execute_action, Action.RAISE, with the minimum raise left as it was.
exec_raise_keeps_min_raise(g, i, amount) ==
    LET total_bet == g.players[i].current_bet + amount
    IN  IF total_bet <= g.current_bet
        THEN exec_call(g, i)
        ELSE LET b == bet(g.players[i], amount)
             IN  [g EXCEPT !.players[i] = b.player,
                           !.pot = g.pot + b.actual,
                           !.current_bet = total_bet]

\* _execute_action, Action.RAISE
exec_raise(g, i, amount) ==
    LET total_bet == g.players[i].current_bet + amount
    IN  IF total_bet <= g.current_bet
        THEN exec_call(g, i)
        ELSE LET b == bet(g.players[i], amount)
             IN  [g EXCEPT !.players[i] = b.player,
                           !.pot = g.pot + b.actual,
                           !.current_bet = total_bet,
                           !.min_raise = amount]

\* _execute_action, Action.ALL_IN: min_raise is computed after current_bet
\* was assigned total_bet.
exec_all_in(g, i) ==
    LET all_in_amount == g.players[i].chips
        b == bet(g.players[i], all_in_amount)
        g1 == [g EXCEPT !.players[i] = b.player, !.pot = g.pot + all_in_amount]
        total_bet == b.player.current_bet
    IN  IF total_bet > g.current_bet
        THEN LET g2 == [g1 EXCEPT !.current_bet = total_bet]
             IN  [g2 EXCEPT !.min_raise = total_bet - g2.current_bet]
        ELSE g1

\* _execute_action
execute_action(g, i, action, amount) ==
    CASE action = FOLD   -> exec_fold(g, i)
      [] action = CHECK  -> exec_check(g, i)
      [] action = CALL   -> exec_call(g, i)
      [] action = RAISE  -> exec_raise(g, i, amount)
      [] action = ALL_IN -> exec_all_in(g, i)

(***************************************************************************)
(* Showdown and pot distribution                                           *)
(***************************************************************************)

\* Scores of seven cards a showdown seat may hold: two pair twice with
\* different kickers, and a pair.
ShowdownScores ==
    { Score(2, <<14, 13, 12>>), Score(2, <<14, 13, 9>>), Score(1, <<14, 13, 12, 9>>) }

\* Python's list comparison a > b: lexicographic, a proper prefix is less.
RECURSIVE ListGT(_, _)
ListGT(a, b) ==
    IF a = <<>> THEN FALSE
    ELSE IF b = <<>> THEN TRUE
    ELSE IF Head(a) # Head(b) THEN Head(a) > Head(b)
    ELSE ListGT(Tail(a), Tail(b))

\* The seats in seat order, as self.players lists them.
SeatOrder == [k \in 1 .. NumPlayers |-> k - 1]

\* _determine_winner, line 230
active_players(ps) == SelectSeq(SeatOrder, LAMBDA i : ~ps[i].folded)

\* _determine_winner, line 247
RECURSIVE best_hand_rank(_, _)
best_hand_rank(act, sc) ==
    IF Len(act) = 1 THEN sc[act[1]].rank
    ELSE LET m == best_hand_rank(Tail(act), sc)
         IN  IF sc[Head(act)].rank >= m THEN sc[Head(act)].rank ELSE m

\* _determine_winner, lines 253-257: the loop over player_hands, k the index
\* of the next entry and best the value of best_kickers so far.
RECURSIVE best_kickers(_, _, _, _, _)
best_kickers(act, sc, best_rank, k, best) ==
    IF k > Len(act) THEN best
    ELSE LET s == sc[act[k]]
         IN  IF s.rank = best_rank /\ (best = <<>> \/ ListGT(s.kickers, best))
             THEN best_kickers(act, sc, best_rank, k + 1, s.kickers)
             ELSE best_kickers(act, sc, best_rank, k + 1, best)

\* _determine_winner, lines 239-244: player_hands, the score of each seat
\* that has not folded, kept by seat (seat i at index i + 1); no hand is
\* evaluated when fewer than two seats are left.
showdown_hands(ps, sc) ==
    IF active_players_count(ps) < 2 THEN <<>>
    ELSE [k \in 1 .. NumPlayers |-> IF ps[k - 1].folded THEN <<>> ELSE sc[k - 1]]

\* _determine_winner with the tie among the best category left undecided.
determine_winner_by_rank(ps, sc) ==
    LET act == active_players(ps)
    IN  IF Len(act) = 0 THEN <<>>
        ELSE IF Len(act) = 1 THEN <<act[1]>>
        ELSE SelectSeq(act, LAMBDA i : sc[i].rank = best_hand_rank(act, sc))

\* _determine_winner: the winning seats, in seat order; sc gives the score
\* evaluate_hand returned for each seat's hole and community cards.
determine_winner(ps, sc) ==
    LET act == active_players(ps)
    IN  IF Len(act) = 0 THEN <<>>
        ELSE IF Len(act) = 1 THEN <<act[1]>>
        ELSE LET br == best_hand_rank(act, sc)
                 best_players == SelectSeq(act, LAMBDA i : sc[i].rank = br)
             IN  IF Len(best_players) > 1
                 THEN LET bk == best_kickers(act, sc, br, 1, <<>>)
                      IN  SelectSeq(act, LAMBDA i : sc[i].rank = br /\ sc[i].kickers = bk)
                 ELSE best_players

\* _distribute_pot, line 275, with the remainder of the division dropped.
winner_amount_no_remainder(p, n, i) == p \div n

\* _distribute_pot, line 275: what the i-th winner (from 0) is paid
winner_amount(p, n, i) == (p \div n) + (IF i < p % n THEN 1 ELSE 0)

\* _distribute_pot: the players, the pot and the amounts paid afterwards
distribute_pot(ps, p, win) ==
    IF win = <<>>
    THEN [players |-> ps, pot |-> p, paid |-> <<>>]
    ELSE LET n == Len(win)
             amt == [k \in 1 .. n |-> winner_amount(p, n, k - 1)]
             gain(i) == SumSeq([k \in 1 .. n |-> IF win[k] = i THEN amt[k] ELSE 0])
         IN  [players |-> [i \in Seats |-> [ps[i] EXCEPT !.chips = ps[i].chips + gain(i)]],
              pot |-> 0,
              paid |-> amt]

(***************************************************************************)
(* card.py, rank.py, suit.py: cards                                        *)
(***************************************************************************)

\* Rank: the values of the members evaluate_hand names.
TWO == 2

THREE == 3

FOUR == 4

FIVE == 5

ACE == 14

\* Card.__init__
Card(r, s) == [rank |-> r, suit |-> s]

\* The ranks and suits of the cards the evaluator is given in the model: the
\* wheel ranks and the six, in three of the four suits of suit.py.
DeckRanks == {TWO, THREE, FOUR, FIVE, 6, ACE}

DeckSuits == {"HEARTS", "DIAMONDS", "CLUBS"}

Deck == {Card(r, s) : r \in DeckRanks, s \in DeckSuits}

(***************************************************************************)
(* Python helpers                                                          *)
(***************************************************************************)

\* The elements of a list
Range(s) == {s[k] : k \in DOMAIN s}

\* s[:n]
Take(s, n) == SubSeq(s, 1, Min(n, Len(s)))

\* x inserted into the descending list s
RECURSIVE InsertDesc(_, _)
InsertDesc(x, s) ==
    IF s = <<>> THEN <<x>>
    ELSE IF x >= Head(s) THEN <<x>> \o s
    ELSE <<Head(s)>> \o InsertDesc(x, Tail(s))

\* sorted(s, reverse=True)
RECURSIVE SortDesc(_)
SortDesc(s) == IF s = <<>> THEN <<>> ELSE InsertDesc(Head(s), SortDesc(Tail(s)))

\* sorted(S, reverse=True) of a set of numbers
RECURSIVE SetSortDesc(_)
SetSortDesc(S) ==
    IF S = {} THEN <<>>
    ELSE LET m == CHOOSE x \in S : \A y \in S : y <= x
         IN  <<m>> \o SetSortDesc(S \ {m})

\* The keys of a dict filled from the list s: its distinct elements in the
\* order of their first occurrence.
RECURSIVE DictKeys(_, _)
DictKeys(s, seen) ==
    IF s = <<>> THEN <<>>
    ELSE IF Head(s) \in seen THEN DictKeys(Tail(s), seen)
    ELSE <<Head(s)>> \o DictKeys(Tail(s), seen \cup {Head(s)})

\* [f(x) for x in s]
MapSeq(s, f(_)) == [k \in DOMAIN s |-> f(s[k])]

RankOf(c) == c.rank

SuitOf(c) == c.suit

(***************************************************************************)
(* handEvaluator.py                                                        *)
(***************************************************************************)

\* evaluate_hand, lines 27-32: rank_count and suit_count, as their keys in
\* insertion order and the counts
rank_keys(cs) == DictKeys(MapSeq(cs, RankOf), {})

suit_keys(cs) == DictKeys(MapSeq(cs, SuitOf), {})

rank_count(cs, r) == Cardinality({k \in DOMAIN cs : cs[k].rank = r})

suit_count(cs, s) == Cardinality({k \in DOMAIN cs : cs[k].suit = s})

\* lines 35-39: the first suit, in dict order, held five times or more
flush_suit(cs) ==
    LET hit == SelectSeq(suit_keys(cs), LAMBDA s : suit_count(cs, s) >= 5)
    IN  IF hit = <<>> THEN "None" ELSE hit[1]

\* line 42
flush_cards(cs) ==
    LET fs == flush_suit(cs)
    IN  IF fs # "None" THEN SelectSeq(cs, LAMBDA c : c.suit = fs) ELSE <<>>

\* line 45
sorted_ranks(cs) == SetSortDesc({cs[k].rank : k \in DOMAIN cs})

\* lines 57-60: the loop over the windows of five sorted ranks, from index i
\* (from 0, as in the source); high is straight_high before the loop
RECURSIVE straight_loop(_, _, _)
straight_loop(sr, i, high) ==
    IF i >= Len(sr) - 4 THEN high
    ELSE IF sr[i + 1] - sr[i + 5] = 4 THEN sr[i + 1]
    ELSE straight_loop(sr, i + 1, high)

\* lines 46-60: straight_high, 0 for None
straight_high(cs) ==
    LET sr == sorted_ranks(cs)
        rs == Range(sr)
        wheel == IF ACE \in rs /\ TWO \in rs /\ THREE \in rs /\ FOUR \in rs /\ FIVE \in rs
                 THEN FIVE ELSE 0
    IN  straight_loop(sr, 0, wheel)

\* lines 64-66: whether the straight flush test passes
is_straight_flush(cs) ==
    LET sh == straight_high(cs)
    IN  /\ flush_suit(cs) # "None"
        /\ sh # 0
        /\ Len(SelectSeq(flush_cards(cs),
                         LAMBDA c : c.rank <= sh /\ c.rank >= sh - 4)) >= 5

\* lines 73-77: the first rank, in dict order, held four times; 0 for None
four_of_a_kind(cs) ==
    LET hit == SelectSeq(rank_keys(cs), LAMBDA r : rank_count(cs, r) = 4)
    IN  IF hit = <<>> THEN 0 ELSE hit[1]

\* lines 85-89: the last rank, in dict order, held three times; 0 for None
three_of_a_kind(cs) ==
    LET hit == SelectSeq(rank_keys(cs), LAMBDA r : rank_count(cs, r) = 3)
    IN  IF hit = <<>> THEN 0 ELSE hit[Len(hit)]

\* lines 86-93: the ranks held twice, sorted
pairs(cs) == SortDesc(SelectSeq(rank_keys(cs), LAMBDA r : rank_count(cs, r) = 2))

\* lines 80-81, 110-111, 117-118, 123-124: the ranks not in out, sorted
kickers_without(cs, out) == SortDesc(SelectSeq(rank_keys(cs), LAMBDA r : r \notin out))

\* evaluate_hand
evaluate_hand(cs) ==
    IF Len(cs) < 5 THEN Score(0, <<>>)
    ELSE IF is_straight_flush(cs)
    THEN (IF straight_high(cs) = ACE THEN Score(9, <<straight_high(cs)>>)
          ELSE Score(8, <<straight_high(cs)>>))
    ELSE IF four_of_a_kind(cs) # 0
    THEN Score(7, <<four_of_a_kind(cs)>>
                  \o Take(kickers_without(cs, {four_of_a_kind(cs)}), 1))
    ELSE IF three_of_a_kind(cs) # 0 /\ pairs(cs) # <<>>
    THEN Score(6, <<three_of_a_kind(cs), pairs(cs)[1]>>)
    ELSE IF flush_suit(cs) # "None"
    THEN Score(5, Take(SortDesc(MapSeq(flush_cards(cs), RankOf)), 5))
    ELSE IF straight_high(cs) # 0
    THEN Score(4, <<straight_high(cs)>>)
    ELSE IF three_of_a_kind(cs) # 0
    THEN Score(3, <<three_of_a_kind(cs)>>
                  \o Take(kickers_without(cs, {three_of_a_kind(cs)}), 2))
    ELSE IF Len(pairs(cs)) >= 2
    THEN Score(2, Take(pairs(cs), 2)
                  \o Take(kickers_without(cs, Range(Take(pairs(cs), 2))), 1))
    ELSE IF pairs(cs) # <<>>
    THEN Score(1, <<pairs(cs)[1]>> \o Take(kickers_without(cs, {pairs(cs)[1]}), 3))
    ELSE Score(0, Take(SortDesc(MapSeq(cs, RankOf)), 5))

\* compare_hands, lines 154-159: the loop over zip(kickers1, kickers2)
RECURSIVE compare_kickers(_, _)
compare_kickers(k1, k2) ==
    IF k1 = <<>> \/ k2 = <<>> THEN 0
    ELSE IF Head(k1) > Head(k2) THEN 1
    ELSE IF Head(k1) < Head(k2) THEN -1
    ELSE compare_kickers(Tail(k1), Tail(k2))

\* compare_hands
compare_hands(hand1, hand2) ==
    IF hand1.rank > hand2.rank THEN 1
    ELSE IF hand1.rank < hand2.rank THEN -1
    ELSE compare_kickers(hand1.kickers, hand2.kickers)

(***************************************************************************)
(* One call of start_hand as a state machine.  It starts from any dealer   *)
(* position, as earlier hands leave it; what else earlier hands leave      *)
(* (pot, bets, flags) start_hand resets before it is read.                 *)
(***************************************************************************)

\* _run_betting_rounds, lines 96-101: the cards dealt before each round
betting_rounds == <<0, 3, 1, 1>>

EngineInit ==
    /\ players \in {[i \in Seats |-> NewPlayer(IF i < Len(t) THEN t[i + 1] ELSE ExtraSeatChips)] :
                        t \in StartingTables}
    /\ pot = 0
    /\ current_bet = 0
    /\ min_raise = big_blind
    /\ dealer_position \in Seats
    /\ community_cards = 0
    /\ hand_history = <<>>
    /\ pc = "idle"
    /\ round = 0
    /\ last_raiser = None
    /\ current_pos = 0
    /\ actions_taken = 0
    /\ winners = <<>>
    /\ paid = <<>>
    /\ start_total = 0
    /\ last_aggressor = None
    /\ since_raise = 0
    /\ answer = NoAnswer

\* score before evaluate_hand has returned
NoScore == <<>>

EvalIdle == cards = <<>> /\ score = NoScore /\ reorders = 0 /\ hands = <<>>

Init == EngineInit /\ EvalIdle

\* start_hand, lines 37-51: reset, deal the hole cards, post the blinds.
StartHand ==
    /\ UNCHANGED eval_vars
    /\ pc = "idle"
    /\ LET ps == [i \in Seats |-> reset_hand(players[i])]
           b == post_blinds(ps, dealer_position)
       IN  /\ players' = b.players
           /\ pot' = b.pot
           /\ current_bet' = b.current_bet
           /\ start_total' = TotalChips(players)
    /\ min_raise' = big_blind
    /\ community_cards' = 0
    /\ round' = 1
    /\ pc' = "rounds"
    /\ winners' = <<>>
    /\ paid' = <<>>
    /\ UNCHANGED <<dealer_position, hand_history, last_raiser,
                   current_pos, actions_taken, last_aggressor, since_raise>>
    /\ answer' = NoAnswer

\* _run_betting_rounds, lines 103-115, and _betting_round, lines 127-137:
\* the next round is entered, its cards dealt and the round's locals set.
BeginRound ==
    /\ UNCHANGED eval_vars
    /\ pc = "rounds"
    /\ round <= Len(betting_rounds)
    /\ active_players_count(players) > 1
    /\ community_cards' = community_cards + betting_rounds[round]
    /\ players' = reset_round_bets(players)
    /\ last_raiser' = None
    /\ current_pos' = start_pos(dealer_position)
    /\ actions_taken' = 0
    /\ last_aggressor' = None
    /\ since_raise' = 0
    /\ pc' = "betting"
    /\ UNCHANGED <<pot, current_bet, min_raise, dealer_position, hand_history,
                   round, winners, paid, start_total>>
    /\ answer' = NoAnswer

\* _betting_round, lines 139-167, for a seat that is asked: the policy
\* returns (action, amount), the action is executed, the cursor moves.
Decide(action, amount) ==
    /\ UNCHANGED eval_vars
    /\ pc = "betting"
    /\ loop_continues(actions_taken, last_raiser, current_pos)
    /\ actions_taken < MaxActions
    /\ is_active(players[current_pos])
    /\ LET g == execute_action(Table(players, pot, current_bet, min_raise),
                               current_pos, action, amount)
           raised == g.current_bet > current_bet
       IN  /\ players' = g.players
           /\ pot' = g.pot
           /\ current_bet' = g.current_bet
           /\ min_raise' = g.min_raise
           /\ last_aggressor' = IF raised THEN current_pos ELSE last_aggressor
           /\ since_raise' = IF raised THEN 1
                             ELSE IF last_aggressor = None THEN 0
                             ELSE since_raise + 1
    /\ last_raiser' = next_last_raiser(action, current_pos, last_raiser)
    /\ current_pos' = (current_pos + 1) % NumPlayers
    /\ actions_taken' = actions_taken + 1
    /\ UNCHANGED <<dealer_position, community_cards, hand_history, pc, round, winners, paid, start_total>>
    /\ answer' = [seat |-> current_pos, action |-> action, amount |-> amount]

\* _betting_round, lines 139-142 and 166-167, for a folded or all-in seat
SkipSeat ==
    /\ UNCHANGED eval_vars
    /\ pc = "betting"
    /\ loop_continues(actions_taken, last_raiser, current_pos)
    /\ actions_taken < MaxActions
    /\ ~is_active(players[current_pos])
    /\ current_pos' = (current_pos + 1) % NumPlayers
    /\ actions_taken' = actions_taken + 1
    /\ UNCHANGED <<players, pot, current_bet, min_raise, dealer_position,
                   community_cards, hand_history, pc, round,
                   last_raiser, winners, paid, start_total, last_aggressor>>
    /\ since_raise' = IF last_aggressor = None THEN 0 ELSE since_raise + 1
    /\ answer' = NoAnswer

\* The state in which the while loop of _betting_round has just ended.
RoundOver ==
    pc = "betting" /\ ~loop_continues(actions_taken, last_raiser, current_pos)

\* _betting_round, lines 169-171
EndRound ==
    /\ UNCHANGED eval_vars
    /\ RoundOver
    /\ LET g == reset_round(Table(players, pot, current_bet, min_raise))
       IN  /\ current_bet' = g.current_bet
           /\ min_raise' = g.min_raise
    /\ round' = round + 1
    /\ pc' = "rounds"
    /\ UNCHANGED <<players, pot, dealer_position, community_cards, hand_history,
                   last_raiser, current_pos, actions_taken, winners,
                   paid, start_total, last_aggressor, since_raise>>
    /\ answer' = NoAnswer

\* start_hand, line 57: the rounds are over or one seat at most is left.
DetermineWinner ==
    /\ UNCHANGED <<cards, score, reorders>>
    /\ pc = "rounds"
    /\ round > Len(betting_rounds) \/ active_players_count(players) <= 1
    /\ \E sc \in [Seats -> ShowdownScores] :
          /\ winners' = determine_winner(players, sc)
          /\ hands' = showdown_hands(players, sc)
    /\ pc' = "distribute"
    /\ UNCHANGED <<players, pot, current_bet, min_raise, dealer_position,
                   community_cards, hand_history, round, last_raiser,
                   current_pos, actions_taken, paid, start_total, last_aggressor,
                   since_raise>>
    /\ answer' = NoAnswer

\* start_hand, lines 58-64: the pot is distributed, the hand recorded and
\* the dealer moved.
DistributePot ==
    /\ UNCHANGED eval_vars
    /\ pc = "distribute"
    /\ LET d == distribute_pot(players, pot, winners)
       IN  /\ players' = d.players
           /\ pot' = d.pot
           /\ paid' = d.paid
           /\ hand_history' = Append(hand_history,
                 [community_cards |-> community_cards, winners |-> winners, pot |-> d.pot])
    /\ dealer_position' = (dealer_position + 1) % NumPlayers
    /\ pc' = "done"
    /\ UNCHANGED <<current_bet, min_raise, community_cards, round, last_raiser,
                   current_pos, actions_taken, winners, start_total, last_aggressor,
                   since_raise>>
    /\ answer' = NoAnswer

Next ==
    \/ StartHand
    \/ BeginRound
    \/ \E a \in Action : \E amount \in (IF a = RAISE THEN RaiseAmounts ELSE {0}) :
          Decide(a, amount)
    \/ SkipSeat
    \/ EndRound
    \/ DetermineWinner
    \/ DistributePot

Spec == Init /\ [][Next]_vars

(***************************************************************************)
(* The hand without a bound on the decisions of a round (SpecLive)         *)
(***************************************************************************)

\* _betting_round, lines 139 and 167: actions_taken is only compared with
\* len(self.players), so the count is kept up to that number.
count_action(taken) == IF taken < NumPlayers THEN taken + 1 ELSE taken

\* _betting_round, lines 139-167, for a seat that is asked, any number of
\* times in a round.
LiveDecide(action, amount) ==
    /\ UNCHANGED eval_vars
    /\ pc = "betting"
    /\ loop_continues(actions_taken, last_raiser, current_pos)
    /\ is_active(players[current_pos])
    /\ LET g == execute_action(Table(players, pot, current_bet, min_raise),
                               current_pos, action, amount)
       IN  /\ players' = g.players
           /\ pot' = g.pot
           /\ current_bet' = g.current_bet
           /\ min_raise' = g.min_raise
    /\ last_raiser' = next_last_raiser(action, current_pos, last_raiser)
    /\ current_pos' = (current_pos + 1) % NumPlayers
    /\ actions_taken' = count_action(actions_taken)
    /\ answer' = [seat |-> current_pos, action |-> action, amount |-> amount]
    /\ UNCHANGED <<dealer_position, community_cards, hand_history, pc, round,
                   winners, paid, start_total, last_aggressor, since_raise>>

\* _betting_round, lines 139-142 and 166-167, for a folded or all-in seat
LiveSkipSeat ==
    /\ UNCHANGED eval_vars
    /\ pc = "betting"
    /\ loop_continues(actions_taken, last_raiser, current_pos)
    /\ ~is_active(players[current_pos])
    /\ current_pos' = (current_pos + 1) % NumPlayers
    /\ actions_taken' = count_action(actions_taken)
    /\ answer' = NoAnswer
    /\ UNCHANGED <<players, pot, current_bet, min_raise, dealer_position,
                   community_cards, hand_history, pc, round, last_raiser,
                   winners, paid, start_total, last_aggressor, since_raise>>

LiveNext ==
    \/ StartHand
    \/ BeginRound
    \/ \E a \in Action : \E amount \in (IF a = RAISE THEN RaiseAmounts ELSE {0}) :
          LiveDecide(a, amount)
    \/ LiveSkipSeat
    \/ EndRound
    \/ DetermineWinner
    \/ DistributePot

\* start_hand is sequential code: while a step is left to take, it is taken.
SpecLive == Init /\ [][LiveNext]_vars /\ WF_vars(LiveNext)

(***************************************************************************)
(* Claims about the betting engine (specification Spec)                    *)
(***************************************************************************)

\* The hand is over: the pot was distributed and the dealer moved.
HandOver == pc = "done"

\* C1: pot conservation.  After pot distribution the seats together hold the
\* chips they held before the hand started, and the pot is 0.
C1_PotConservation ==
    HandOver => (TotalChips(players) = start_total /\ pot = 0)

\* C2: a betting round in which no action increased the current bet ends
\* after exactly one full pass: the cursor has made NumPlayers steps, one
\* visit to each seat, and no seat was offered a second decision.
C2_NoRaiseOnePass ==
    (RoundOver /\ last_aggressor = None) => actions_taken = NumPlayers

\* C3: a betting round with raises ends exactly when the cursor is back at
\* the last aggressor, the seat that last increased the current bet: the
\* cursor has then made one full circle since that raise, so every other
\* seat was visited once and the aggressor not again.
C3_EndsAtLastAggressor ==
    (RoundOver /\ last_aggressor # None) =>
        (current_pos = last_aggressor /\ since_raise = NumPlayers)

\* The winners are listed in seat order.
InSeatOrder(win) == \A a, b \in DOMAIN win : a < b => win[a] < win[b]

\* C8: pot distribution with k >= 1 winners pays each winner pot div k, and
\* one chip more to each of the first pot mod k winners in seat order; the
\* amounts paid sum to the pot, and a pot of 100 among 3 winners is paid as
\* 34, 33, 33.
C8_SplitPot ==
    [][(pc = "distribute" /\ winners # <<>>) =>
          LET k == Len(winners)
          IN  /\ InSeatOrder(winners)
              /\ paid' = [i \in 1 .. k |-> (pot \div k) + (IF i <= pot % k THEN 1 ELSE 0)]
              /\ \A i \in 1 .. k :
                    players'[winners[i]].chips = players[winners[i]].chips + paid'[i]
              /\ \A j \in Seats \ Range(winners) : players'[j].chips = players[j].chips
              /\ SumSeq(paid') = pot
              /\ ((pot = 100 /\ k = 3) => paid' = <<34, 33, 33>>)
    ]_vars

\* C8, witness: a hand ended with a pot of 100 paid to three winners.
C8_Witness ==
    HandOver /\ paid = <<34, 33, 33>> /\ Len(winners) = 3

\* C9: a big-blind seat that holds less than the big blind posts its whole
\* stack and no more, is flagged all-in, and the current bet is the amount
\* it posted, not the big blind.
C9_ShortBigBlind ==
    [][LET bb_pos == (dealer_position + 2) % NumPlayers
           stack == players[bb_pos].chips
       IN  (pc = "idle" /\ pc' = "rounds" /\ stack < big_blind) =>
              /\ players'[bb_pos].chips = 0
              /\ players'[bb_pos].current_bet = stack
              /\ players'[bb_pos].all_in
              /\ current_bet' = stack
              /\ pot' = TotalChips(players) - TotalChips(players')
              /\ pot' <= small_blind + stack
    ]_vars

\* C9, witness: the blinds are posted, the big-blind seat posted its stack
\* of 5 and is all-in, and the current bet is 5.
C9_Witness ==
    LET bb_pos == (dealer_position + 2) % NumPlayers
    IN  /\ pc = "rounds" /\ round = 1
        /\ start_total = 45
        /\ players[bb_pos].current_bet = 5
        /\ players[bb_pos].chips = 0
        /\ players[bb_pos].all_in
        /\ current_bet = 5
        /\ pot = 15

\* The scenario of C10: the pot is 30, nothing is bet, the minimum raise is
\* 20, and the seat at the cursor, which has bet nothing and holds 50 chips
\* or more, answers Raise with 50.
RaiseScenario ==
    /\ pot = 30
    /\ current_bet = 0
    /\ min_raise = 20
    /\ players[current_pos].current_bet = 0
    /\ players[current_pos].chips >= 50
    /\ Decide(RAISE, 50)

\* C10 as stated: after the raise the seat's bet is 50, the current bet 50,
\* the pot 80 and the minimum raise 20.
C10_RaiseScenarioAsStated ==
    [][RaiseScenario =>
          /\ players'[current_pos].current_bet = 50
          /\ current_bet' = 50
          /\ pot' = 80
          /\ min_raise' = 20
    ]_vars

\* C10, amended: after the raise the seat's bet is 50, the current bet 50,
\* the pot 80 and the minimum raise 50, the amount raised.
C10_RaiseScenario ==
    [][RaiseScenario =>
          /\ players'[current_pos].current_bet = 50
          /\ current_bet' = 50
          /\ pot' = 80
          /\ min_raise' = 50
    ]_vars

\* C10, witness: the raise of the scenario has just been made.
C10_Witness ==
    /\ pc = "betting"
    /\ pot = 80
    /\ current_bet = 50
    /\ min_raise = 50
    /\ last_aggressor # None
    /\ since_raise = 1
    /\ players[last_aggressor].current_bet = 50
    /\ TotalChips(players) = start_total - 80

\* C11: Call moves min(current bet - the seat's bet, the seat's stack) chips
\* from the seat's stack to its bet and to the pot, flags the seat all-in
\* when its stack reaches 0, and leaves everything else, current bet and
\* minimum raise among it, as it was; a seat with 30 chips that faces a call
\* of 50 pays 30 and is all-in.
C11_Call ==
    [][Decide(CALL, 0) =>
          LET i == current_pos
              owed == current_bet - players[i].current_bet
              stack == players[i].chips
              paying == IF owed <= stack THEN owed ELSE stack
          IN  /\ players'[i].chips = stack - paying
              /\ players'[i].current_bet = players[i].current_bet + paying
              /\ pot' = pot + paying
              /\ (players'[i].chips = 0 => players'[i].all_in)
              /\ players'[i].folded = players[i].folded
              /\ \A j \in Seats \ {i} : players'[j] = players[j]
              /\ current_bet' = current_bet
              /\ min_raise' = min_raise
              /\ ((stack = 30 /\ owed = 50) => (paying = 30 /\ players'[i].all_in))
    ]_vars

\* The last step asked a seat and its policy answered with action a.
Answered(a) == answer # NoAnswer /\ answer.action = a

\* C11, witness: a seat that held 30 chips and had bet nothing has answered
\* Call to a bet of 50: it paid its 30 chips and is all-in.
C11_Witness ==
    /\ Answered(CALL)
    /\ current_bet = 50
    /\ players[answer.seat].current_bet = 30
    /\ players[answer.seat].chips = 0
    /\ players[answer.seat].all_in

\* C12: Check is accepted, and changes no chips, bet, pot, current bet or
\* folded flag, exactly when the seat's bet equals the current bet; a Check
\* of a seat whose bet is below the current bet marks the seat folded and
\* changes nothing else.
C12_Check ==
    [][Decide(CHECK, 0) =>
          LET i == current_pos
          IN  /\ pot' = pot
              /\ current_bet' = current_bet
              /\ min_raise' = min_raise
              /\ IF players[i].current_bet = current_bet
                 THEN players' = players
                 ELSE /\ current_bet > players[i].current_bet
                      /\ players' = [players EXCEPT ![i].folded = TRUE]
    ]_vars

\* C12, witness: a seat facing a bet has answered Check and is folded.
C12_Witness ==
    /\ Answered(CHECK)
    /\ players[answer.seat].current_bet < current_bet
    /\ players[answer.seat].folded

\* C12, second witness: a seat whose bet equals the current bet has answered
\* Check and is not folded.
C12_WitnessAccepted ==
    /\ Answered(CHECK)
    /\ players[answer.seat].current_bet = current_bet
    /\ ~players[answer.seat].folded

\* C13: a Raise whose total bet does not exceed the current bet is a Call
\* in every respect: the chips a Call would move are moved, current bet and
\* minimum raise stay, and the seat does not become the seat the round has
\* to come back to.
C13_InvalidRaiseIsCall ==
    [][\A amount \in RaiseAmounts :
          (players[current_pos].current_bet + amount <= current_bet /\ Decide(RAISE, amount)) =>
              LET i == current_pos
                  called == exec_call(Table(players, pot, current_bet, min_raise), i)
              IN  /\ players' = called.players
                  /\ pot' = called.pot
                  /\ current_bet' = current_bet
                  /\ min_raise' = min_raise
                  /\ last_raiser' = last_raiser
    ]_vars

\* C14: when the pot is distributed to no winner, every seat having folded,
\* the pot is 0 afterwards and no chips are lost: the seats together hold
\* what they held before the hand.
C14_ZeroWinnersNoLoss ==
    (HandOver /\ winners = <<>>) => (pot = 0 /\ TotalChips(players) = start_total)

\* C15: a hand runs to completion whatever the policies answer: every
\* betting round ends and the hand reaches the distribution of the pot and
\* the move of the dealer.
C15_HandCompletes == <>HandOver

\* C17: after the blinds are posted, the current bet is the larger of the
\* two amounts the small-blind seat and the big-blind seat actually posted,
\* and the pot is their sum.
C17_BlindsSetBetAndPot ==
    [][(pc = "idle" /\ pc' = "rounds") =>
          LET sb_bet == players'[(dealer_position + 1) % NumPlayers].current_bet
              bb_bet == players'[(dealer_position + 2) % NumPlayers].current_bet
          IN  /\ current_bet' = Max(sb_bet, bb_bet)
              /\ pot' = sb_bet + bb_bet
    ]_vars

\* C18: Raise(amount) takes amount as the increment on top of the call: for
\* a seat that holds the chips for it and amount > 0, after the Raise the
\* seat's wager is the previous current bet plus amount, the current bet is
\* that wager, and the pot has grown by (previous current bet - previous
\* wager) + amount.
C18_RaiseIsIncrementOnCall ==
    [][\A amount \in RaiseAmounts :
          LET i == current_pos
              owed == current_bet - players[i].current_bet
          IN  (/\ amount > 0
               /\ players[i].chips >= owed + amount
               /\ Decide(RAISE, amount)) =>
                 /\ players'[i].current_bet = current_bet + amount
                 /\ current_bet' = players'[i].current_bet
                 /\ pot' = pot + owed + amount
    ]_vars

\* C19: AllIn moves the whole remaining stack of the seat to its wager and
\* to the pot and flags the seat all-in; the seat becomes the last
\* aggressor only if its resulting wager exceeds the current bet, and an
\* AllIn that does not exceed the current bet leaves the current bet and
\* the last aggressor as they were.
C19_AllIn ==
    [][Decide(ALL_IN, 0) =>
          LET i == current_pos
              stack == players[i].chips
              total_bet == players[i].current_bet + stack
          IN  /\ players'[i].chips = 0
              /\ players'[i].current_bet = total_bet
              /\ players'[i].all_in
              /\ pot' = pot + stack
              /\ (total_bet > current_bet => last_raiser' = i)
              /\ (total_bet <= current_bet =>
                     /\ current_bet' = current_bet
                     /\ last_raiser' = last_raiser)
    ]_vars

\* C20 as stated: when a betting round terminates, the current bet and the
\* minimum raise are both reset to the big blind.
C20_ResetToBigBlind ==
    [][(pc = "betting" /\ pc' = "rounds") =>
          /\ current_bet' = big_blind
          /\ min_raise' = big_blind
    ]_vars

\* C20, amended: when a betting round terminates, the current bet is reset
\* to 0 and the minimum raise to the big blind.
C20_RoundEndResets ==
    [][(pc = "betting" /\ pc' = "rounds") =>
          /\ current_bet' = 0
          /\ min_raise' = big_blind
    ]_vars

\* C20, witness: the first round is over after a raise to 50; a seat's wager
\* of 50 still stands, the current bet is 0 and the minimum raise, which
\* the raise had made 50, is the big blind.
C20_Witness ==
    /\ pc = "rounds"
    /\ round = 2
    /\ \E i \in Seats : players[i].current_bet = 50
    /\ current_bet = 0
    /\ min_raise = big_blind

\* C21: on the flop, the turn and the river the first seat the cursor
\* visits is (dealer + 1) mod n, and pre-flop it is (dealer + 3) mod n.
C21_FirstSeatOfRound ==
    [][(pc = "rounds" /\ pc' = "betting") =>
          current_pos' = IF round = 1
                         THEN (dealer_position + 3) % NumPlayers
                         ELSE (dealer_position + 1) % NumPlayers
    ]_vars

\* Seat s is the only seat of the hand in progress that has not folded.
SoleSurvivor(s) ==
    /\ pc \in {"rounds", "betting", "distribute"}
    /\ \A j \in Seats : players[j].folded <=> j # s

\* C22: once only one seat that has not folded remains, whatever it is
\* asked and answers later it stays in the hand, it is the only winner, and
\* the distribution gives it the whole pot.
C22_SoleSurvivorWins ==
    [][\A s \in Seats :
          SoleSurvivor(s) =>
             /\ ~players'[s].folded
             /\ (pc' = "distribute" => winners' = <<s>>)
             /\ (pc = "distribute" =>
                    /\ players'[s].chips = players[s].chips + pot
                    /\ pot' = 0)
    ]_vars

\* The seats that went to a showdown of two or more seats, once the
\* winners are determined.
ShowdownSeats ==
    IF pc \in {"distribute", "done"} /\ hands # <<>>
    THEN {s \in Seats : ~players[s].folded}
    ELSE {}

\* C23: at a showdown of two or more seats that have not folded, the winners
\* are exactly the seats that have not folded, all-in seats included, whose
\* score no other such seat beats under compare_hands; they share one
\* category and one kicker list, and no folded seat is among them.
C23_ShowdownWinners ==
    ShowdownSeats # {} =>
        LET won == {winners[k] : k \in 1 .. Len(winners)}
        IN  /\ won = {s \in ShowdownSeats :
                        \A t \in ShowdownSeats : compare_hands(hands[s + 1], hands[t + 1]) >= 0}
            /\ \A s, t \in won : hands[s + 1] = hands[t + 1]
            /\ \A s \in won : ~players[s].folded
            /\ Len(winners) = Cardinality(won)

\* A showdown two seats win with equal scores, one of them all-in, over a
\* third seat of the same category and lower kickers.
C23_Witness ==
    /\ Cardinality(ShowdownSeats) = 3
    /\ Len(winners) = 2
    /\ \E s \in ShowdownSeats : players[s].all_in /\ \E k \in 1 .. 2 : winners[k] = s
    /\ \E s \in ShowdownSeats :
          /\ \A k \in 1 .. 2 : winners[k] # s
          /\ hands[s + 1].rank = hands[winners[1] + 1].rank

\* C24: at every point of every betting round, the pre-flop round right
\* after the blinds included, the current bet is the highest street wager
\* a seat holds.
C24_CurrentBetIsHighestWager ==
    pc = "betting" =>
        /\ \A i \in Seats : players[i].current_bet <= current_bet
        /\ \E i \in Seats : players[i].current_bet = current_bet

\* C26: from the start of a hand to the distribution of its pot, whatever
\* actions and amounts the policies return, no seat's chips go below zero
\* or grow, and the pot does not shrink.
C26_ChipsAndPotMonotone ==
    [][(pc = "idle" \/ pc = "rounds" \/ pc = "betting") =>
          /\ \A i \in Seats :
                /\ players'[i].chips >= 0
                /\ players'[i].chips <= players[i].chips
          /\ pot' >= pot
    ]_vars

\* A seat has answered Raise with more than it held: it paid what it had,
\* is all-in with no chips, and its wager is short of the amount.
C26_Witness ==
    /\ pc = "betting"
    /\ Answered(RAISE)
    /\ answer.amount > 0
    /\ players[answer.seat].current_bet < answer.amount
    /\ players[answer.seat].chips = 0
    /\ players[answer.seat].all_in
    /\ current_bet > players[answer.seat].current_bet

\* C27: when the loop of a betting round has ended, every seat that is
\* neither folded nor all-in holds a street wager equal to the current bet
\* the round reached.
C27_RoundEndsMatched ==
    RoundOver => \A i \in Seats : is_active(players[i]) => players[i].current_bet = current_bet

\* A round that ends after a raise with two seats still able to act, both
\* holding the raised bet as their wager.
C27_Witness ==
    /\ RoundOver
    /\ last_aggressor # None
    /\ current_bet > big_blind
    /\ Cardinality({i \in Seats : is_active(players[i])}) >= 2

\* C28: the min-raise of the snapshot a policy is offered is at least 1 in
\* every state of a hand, after any sequence of Raise and All-in answers.
C28_MinRaisePositive ==
    (pc = "betting" /\ loop_continues(actions_taken, last_raiser, current_pos)
                    /\ is_active(players[current_pos])) => min_raise >= 1

\* The blind seat i was asked to post: small_blind at dealer + 1, big_blind
\* at dealer + 2, nothing elsewhere.
BlindOf(i) ==
    IF i = (dealer_position + 1) % NumPlayers THEN small_blind
    ELSE IF i = (dealer_position + 2) % NumPlayers THEN big_blind
    ELSE 0

\* What seat i has paid into the pot pre-flop: its blind and its street
\* wager.  A seat with no chips and no wager was all-in with its blind and
\* is left out, the amount it posted not being kept.
PaidPreflop(i) ==
    IF players[i].chips = 0 /\ players[i].current_bet = 0 THEN 0
    ELSE BlindOf(i) + players[i].current_bet

\* C29: the blinds count as pre-flop wagers.  When the big-blind seat has
\* posted the full big blind and nobody has raised, its Check is accepted
\* and does not fold it; and when the pre-flop round ends no seat has paid
\* into the pot more than the current bet the round reached.
C29_BlindsAreWagers ==
    [][/\ (Decide(CHECK, 0) /\ round = 1 /\ current_bet = big_blind
              /\ current_pos = (dealer_position + 2) % NumPlayers)
          => ~players'[current_pos].folded
       /\ (EndRound /\ round = 1)
          => \A i \in Seats : PaidPreflop(i) <= current_bet
    ]_vars

(***************************************************************************)
(* The evaluator on dealt cards                                            *)
(***************************************************************************)

\* evaluate_hand, line 23: fewer cards are not evaluated
MinCards == 5

\* _determine_winner, line 242: two hole cards and five community cards
MaxCards == 7

\* Reorderings of one list that are evaluated.
MaxReorders == 1

\* suit.py, in the order of the enumeration
SuitOrder == <<"HEARTS", "DIAMONDS", "CLUBS", "SPADES">>

\* Deck.__init__, line 13: the cards in the order the deck is built, rank by
\* rank and suit by suit (the cards of the model's deck only)
RankOrder == SetSortDesc(DeckRanks)

DeckOrder ==
    LET nr == Len(RankOrder)
        ns == Len(SuitOrder)
        all == [k \in 1 .. nr * ns |->
                   Card(RankOrder[nr - ((k - 1) \div ns)], SuitOrder[((k - 1) % ns) + 1])]
    IN  SelectSeq(all, LAMBDA c : c \in Deck)

\* The cards of the set S as a list, in deck order.
Dealt(S) == SelectSeq(DeckOrder, LAMBDA c : c \in S)

\* The list cs with its first card and its j-th exchanged.
MoveToFront(cs, j) == [cs EXCEPT ![1] = cs[j], ![j] = cs[1]]

EngineIdle ==
    /\ players = [i \in Seats |-> NewPlayer(0)]
    /\ pot = 0
    /\ current_bet = 0
    /\ min_raise = big_blind
    /\ dealer_position = 0
    /\ community_cards = 0
    /\ hand_history = <<>>
    /\ pc = "idle"
    /\ round = 0
    /\ last_raiser = None
    /\ current_pos = 0
    /\ actions_taken = 0
    /\ winners = <<>>
    /\ paid = <<>>
    /\ start_total = 0
    /\ last_aggressor = None
    /\ since_raise = 0
    /\ answer = NoAnswer

\* Any five to seven cards of the deck are dealt.
EvalInit ==
    /\ EngineIdle
    /\ \E S \in SUBSET Deck :
          /\ Cardinality(S) >= MinCards
          /\ Cardinality(S) <= MaxCards
          /\ cards = Dealt(S)
    /\ score = NoScore
    /\ reorders = 0
    /\ hands = <<>>

\* evaluate_hand(cards)
Evaluate ==
    /\ score = NoScore
    /\ score' = evaluate_hand(cards)
    /\ UNCHANGED <<cards, reorders, hands, engine_vars>>

\* evaluate_hand on the same cards in another order
EvaluateReordered(j) ==
    /\ score # NoScore
    /\ reorders < MaxReorders
    /\ cards' = MoveToFront(cards, j)
    /\ score' = evaluate_hand(cards')
    /\ reorders' = reorders + 1
    /\ UNCHANGED <<hands, engine_vars>>

EvalNext ==
    \/ Evaluate
    \/ \E j \in 2 .. Len(cards) : EvaluateReordered(j)

SpecEval == EvalInit /\ [][EvalNext]_vars

(***************************************************************************)
(* compare_hands on scores evaluate_hand returned                          *)
(***************************************************************************)

\* Scores kept to be compared.
MaxHands == 3

\* One card of each rank, not all of a suit: the lists compared are the
\* lists of four cards or more of these.
CompareDeck == {c \in Deck : c.suit = (IF c.rank % 2 = 0 THEN "HEARTS" ELSE "DIAMONDS")}

CompareInit ==
    /\ EngineIdle
    /\ cards = <<>>
    /\ score = NoScore
    /\ reorders = 0
    /\ hands = <<>>

\* evaluate_hand on some cards; the score is kept
ScoreHand(S) ==
    /\ Len(hands) < MaxHands
    /\ Cardinality(S) >= MinCards - 1
    /\ cards' = Dealt(S)
    /\ score' = evaluate_hand(cards')
    /\ hands' = Append(hands, score')
    /\ UNCHANGED <<reorders, engine_vars>>

CompareNext == \E S \in SUBSET CompareDeck : ScoreHand(S)

SpecCompare == CompareInit /\ [][CompareNext]_vars

(***************************************************************************)
(* Claims about the evaluator (specifications SpecEval and SpecCompare)    *)
(***************************************************************************)

\* A list of cards has been evaluated.
Evaluated == score # NoScore

\* C4: evaluate_hand returns a result for every five to seven distinct
\* cards, and the result is the same for every ordering of the cards: it is
\* the result for the same cards in deck order.
C4_OrderIndependent ==
    Evaluated => score = evaluate_hand(Dealt(Range(cards)))

\* The ranks of a set of cards.
RanksOf(F) == {c.rank : c \in F}

\* The cards of rank r in F.
OfRank(F, r) == {c \in F : c.rank = r}

\* The ranks held exactly n times in F.
HeldTimes(F, n) == {r \in RanksOf(F) : Cardinality(OfRank(F, r)) = n}

\* Five cards of one suit.
FiveFlush(F) == Cardinality({c.suit : c \in F}) = 1

\* The ranks A-2-3-4-5.
WheelRanks == {ACE, TWO, THREE, FOUR, FIVE}

\* The high card of the straight five cards form, 0 if they form none; the
\* wheel is a straight to the five.
FiveStraightHigh(F) ==
    LET rs == RanksOf(F)
        hi == CHOOSE r \in rs : \A q \in rs : q <= r
    IN  IF rs = WheelRanks THEN FIVE
        ELSE IF Cardinality(rs) = 5 /\ rs = (hi - 4) .. hi THEN hi
        ELSE 0

\* The poker hand that five cards are: category and kickers.
FiveCardHand(F) ==
    LET high == FiveStraightHigh(F)
        four == HeldTimes(F, 4)
        three == HeldTimes(F, 3)
        two == HeldTimes(F, 2)
        one == HeldTimes(F, 1)
    IN  IF high # 0 /\ FiveFlush(F)
          THEN Score(IF high = ACE THEN 9 ELSE 8, <<high>>)
        ELSE IF four # {} THEN Score(7, SetSortDesc(four) \o SetSortDesc(one))
        ELSE IF three # {} /\ two # {}
          THEN Score(6, SetSortDesc(three) \o SetSortDesc(two))
        ELSE IF FiveFlush(F) THEN Score(5, SetSortDesc(one))
        ELSE IF high # 0 THEN Score(4, <<high>>)
        ELSE IF three # {} THEN Score(3, SetSortDesc(three) \o SetSortDesc(one))
        ELSE IF Cardinality(two) = 2 THEN Score(2, SetSortDesc(two) \o SetSortDesc(one))
        ELSE IF two # {} THEN Score(1, SetSortDesc(two) \o SetSortDesc(one))
        ELSE Score(0, SetSortDesc(one))

\* The hands of five cards contained in a list of cards.
FiveCardHands(cs) ==
    {FiveCardHand(F) : F \in {G \in SUBSET Range(cs) : Cardinality(G) = 5}}

\* The best of the hands of five cards contained in a list of cards.
BestFiveCardHand(cs) ==
    CHOOSE h \in FiveCardHands(cs) :
        \A g \in FiveCardHands(cs) : compare_hands(h, g) >= 0

\* C5: evaluate_hand returns the category and the kickers of the best hand
\* of five cards contained in its five to seven cards; so a list that holds
\* a straight flush scores 8 or 9, and a list that holds three of one rank
\* and two of another scores 6 or better.
C5_BestFiveCardHand ==
    Evaluated => score = BestFiveCardHand(cards)

\* C6: the five cards A-2-3-4-5 score with the kicker 5: category 8 when
\* they are of one suit, category 4 when they are not.
C6_Wheel ==
    (Evaluated /\ Len(cards) = 5 /\ RanksOf(Range(cards)) = WheelRanks) =>
        score = Score(IF FiveFlush(Range(cards)) THEN 8 ELSE 4, <<FIVE>>)

\* C7: compare_hands orders the scores evaluate_hand returns, the score of
\* fewer than five cards among them: of three scores A, B and C, if A is no
\* worse than B and B no worse than C, then A is no worse than C.
C7_Transitive ==
    Len(hands) = 3 =>
        ((compare_hands(hands[1], hands[2]) >= 0 /\ compare_hands(hands[2], hands[3]) >= 0)
            => compare_hands(hands[1], hands[3]) >= 0)

(***************************************************************************)
(* strategy.py and gtoStrategy.py: the policies (specification SpecPolicy) *)
(***************************************************************************)

\* What a policy returns: (action, amount).
Decision(a, n) == [action |-> a, amount |-> n]

\* int(x * f) for x >= 0, the factor f given in hundredths
int_times(x, hundredths) == (x * hundredths) \div 100

\* PokerStrategy._calculate_hand_strength, in hundredths: the hole cards
\* alone decide it.
calculate_hand_strength(hand) ==
    IF Len(hand) < 2 THEN 0
    ELSE LET card1 == hand[1]
             card2 == hand[2]
             gap == IF card1.rank >= card2.rank THEN card1.rank - card2.rank
                    ELSE card2.rank - card1.rank
             base_strength == IF card1.rank = card2.rank THEN 80
                              ELSE IF card1.suit = card2.suit THEN 30
                              ELSE IF gap = 1 THEN 20
                              ELSE 10
             high_card_bonus == Max(card1.rank, card2.rank)
         IN  Min(100, base_strength + high_card_bonus)

\* The decide of the three heuristic policies, which differ in their
\* thresholds (hundredths of hand strength) and pot fractions (hundredths):
\* raise_facing, call_facing and fraction_facing when a bet is faced,
\* raise_open and fraction_open when none is.
heuristic_decide(p, hand, cb, mr, pot_size, raise_facing, fraction_facing, call_facing, raise_open, fraction_open) ==
    LET hand_strength == calculate_hand_strength(hand)
        call_amount == cb - p.current_bet
    IN  IF cb > p.current_bet
        THEN IF hand_strength > raise_facing /\ p.chips > call_amount + mr
             THEN Decision(RAISE, Max(mr, Min(int_times(pot_size, fraction_facing), p.chips)))
             ELSE IF hand_strength > call_facing /\ p.chips >= call_amount
             THEN Decision(CALL, call_amount)
             ELSE Decision(FOLD, 0)
        ELSE IF hand_strength > raise_open
             THEN Decision(RAISE, Max(mr, Min(int_times(pot_size, fraction_open), p.chips)))
             ELSE Decision(CHECK, 0)

(***************************************************************************)
(* The floats of gtoStrategy.py, kept as fractions in lowest terms         *)
(***************************************************************************)

RECURSIVE GCD(_, _)
GCD(a, b) == IF b = 0 THEN a ELSE GCD(b, a % b)

Abs(x) == IF x < 0 THEN 0 - x ELSE x

\* n / d in lowest terms, d > 0
Frac(n, d) ==
    LET g == GCD(Abs(n), d)
    IN  [n |-> n \div g, d |-> d \div g]

\* float('inf')
Inf == [n |-> 1, d |-> 0]

FInt(k) == [n |-> k, d |-> 1]

FAdd(x, y) == IF x = Inf \/ y = Inf THEN Inf
              ELSE LET g == GCD(x.d, y.d)
                   IN  Frac(x.n * (y.d \div g) + y.n * (x.d \div g), (x.d \div g) * y.d)

FSub(x, y) == FAdd(x, [n |-> 0 - y.n, d |-> y.d])

\* the product; Inf only ever meets a positive factor
FMul(x, y) == IF x = Inf \/ y = Inf THEN Inf
              ELSE LET g1 == GCD(Abs(x.n), y.d)
                       g2 == GCD(Abs(y.n), x.d)
                   IN  Frac((x.n \div g1) * (y.n \div g2), (x.d \div g2) * (y.d \div g1))

FLess(x, y) == IF x = Inf THEN FALSE
               ELSE IF y = Inf THEN TRUE
               ELSE LET g == GCD(x.d, y.d)
                    IN  x.n * (y.d \div g) < y.n * (x.d \div g)

FMin(x, y) == IF FLess(y, x) THEN y ELSE x

FMax(x, y) == IF FLess(x, y) THEN y ELSE x

\* int(x) for x >= 0
FFloor(x) == x.n \div x.d

\* x > threshold on floats: when the exact values are equal, the float x
\* lies a rounding error above the threshold or not (rounds_up).
exceeds(x, threshold, rounds_up) ==
    FLess(threshold, x) \/ (x = threshold /\ rounds_up)

(***************************************************************************)
(* gtoStrategy.py: GTOStrategy                                             *)
(***************************************************************************)

\* _get_game_stage
get_game_stage(community) ==
    IF Len(community) = 0 THEN "preflop"
    ELSE IF Len(community) = 3 THEN "flop"
    ELSE IF Len(community) = 4 THEN "turn"
    ELSE "river"

RankGap(hand) == Abs(hand[1].rank - hand[2].rank)

\* _calculate_raw_hand_strength
calculate_raw_hand_strength(hand, community) ==
    IF Len(hand) < 2 THEN FInt(0)
    ELSE LET card1 == hand[1]
             card2 == hand[2]
         IN  IF card1.rank = card2.rank
             THEN FAdd(Frac(6, 10), FMul(Frac(4, 10), Frac(card1.rank, 14)))
             ELSE LET suited == card1.suit = card2.suit
                      gap == RankGap(hand)
                      high_card == Frac(Max(card1.rank, card2.rank), 14)
                      base == FAdd(FAdd(FAdd(Frac(1, 10),
                                             IF suited THEN Frac(15, 100) ELSE FInt(0)),
                                        IF gap = 1 THEN Frac(2, 10)
                                        ELSE IF gap = 2 THEN Frac(1, 10)
                                        ELSE FInt(0)),
                                   FMul(high_card, Frac(3, 10)))
                  IN  IF community # <<>>
                      THEN LET hand_rank == evaluate_hand(hand \o community).rank
                               made_hand_strength == Frac(hand_rank, 9)
                           IN  FMax(base, FAdd(FMul(made_hand_strength, Frac(7, 10)),
                                               FMul(base, Frac(3, 10))))
                      ELSE base

\* _calculate_draw_potential
calculate_draw_potential(hand, community) ==
    IF Len(community) < 3 THEN Frac(5, 10)
    ELSE LET all_cards == hand \o community
             suits == {all_cards[k].suit : k \in DOMAIN all_cards}
             flush_draw == /\ \E s \in suits : suit_count(all_cards, s) = 4
                           /\ \A s \in suits : suit_count(all_cards, s) <= 4
             \* ranks, ascending
             desc == sorted_ranks(all_cards)
             ranks == [k \in 1 .. Len(desc) |-> desc[Len(desc) + 1 - k]]
             straight_draw == \E i \in 1 .. (Len(ranks) - 3) : ranks[i + 3] - ranks[i] <= 4
             open_ended == \E i \in 1 .. (Len(ranks) - 4) : ranks[i + 4] - ranks[i] = 4
         IN  IF flush_draw /\ open_ended THEN Frac(9, 10)
             ELSE IF flush_draw \/ open_ended THEN Frac(7, 10)
             ELSE IF straight_draw THEN Frac(5, 10)
             ELSE Frac(3, 10)

\* _calculate_hand_playability
calculate_hand_playability(hand, community, stage) ==
    IF Len(hand) < 2 THEN Frac(5, 10)
    ELSE LET suited == hand[1].suit = hand[2].suit
             flush_potential == IF suited THEN FInt(1) ELSE Frac(6, 10)
             gap == RankGap(hand)
             straight_potential == IF gap <= 3 THEN FSub(FInt(1), FMul(FInt(gap), Frac(2, 10)))
                                   ELSE Frac(3, 10)
         IN  IF stage = "preflop"
             THEN FMul(FAdd(flush_potential, straight_potential), Frac(1, 2))
             ELSE FMul(FAdd(FAdd(flush_potential, straight_potential),
                            calculate_draw_potential(hand, community)), Frac(1, 3))

\* _calculate_blocker_effect
calculate_blocker_effect(hand, stage) ==
    IF Len(hand) < 2 THEN FInt(1)
    ELSE LET card1 == hand[1]
             card2 == hand[2]
             blocker_value == FAdd(FAdd(IF card1.rank >= 13 \/ card2.rank >= 13
                                        THEN Frac(2, 10) ELSE FInt(0),
                                        IF card1.rank = card2.rank
                                        THEN Frac(1, 10) ELSE FInt(0)),
                                   IF card1.suit = card2.suit
                                   THEN Frac(5, 100) ELSE FInt(0))
         IN  FAdd(FInt(1), blocker_value)

\* _calculate_gto_hand_strength
calculate_gto_hand_strength(hand, community, stage) ==
    IF Len(hand) < 2 THEN FInt(0)
    ELSE LET base_strength == calculate_raw_hand_strength(hand, community)
             stage_multiplier == IF stage = "preflop" THEN FInt(1)
                                 ELSE IF stage = "flop" THEN Frac(12, 10)
                                 ELSE IF stage = "turn" THEN Frac(15, 10)
                                 ELSE FInt(2)
             playability == calculate_hand_playability(hand, community, stage)
             blocker_effect == calculate_blocker_effect(hand, stage)
             strength == FMul(FMul(FMul(base_strength, stage_multiplier),
                                   playability), blocker_effect)
         IN  FMin(FInt(1), FMax(FInt(0), strength))

\* _calculate_range_advantage
calculate_range_advantage(hand, stage) ==
    IF Len(hand) < 2 THEN Frac(5, 10)
    ELSE LET card1 == hand[1]
             card2 == hand[2]
             gap == RankGap(hand)
             hand_score == FAdd(Frac(card1.rank + card2.rank, 2),
                                FInt((IF card1.rank = card2.rank THEN 5 ELSE 0)
                                     + (IF card1.suit = card2.suit THEN 2 ELSE 0)
                                     + (IF gap <= 2 THEN 3 - gap ELSE 0)))
             max_score == 20
         IN  FMin(FInt(1), FMul(hand_score, Frac(1, max_score)))

\* _calculate_position_advantage: the snapshot carries no 'players' entry,
\* so the seat is never found in the list.
calculate_position_advantage == Frac(5, 10)

\* _calculate_pot_odds
calculate_pot_odds(p, cb, pot_size) ==
    LET call_amount == cb - p.current_bet
    IN  IF call_amount <= 0 THEN Inf
        ELSE Frac(call_amount, pot_size + call_amount)

\* _calculate_implied_odds
calculate_implied_odds(p, hand, community, cb, pot_size, stage) ==
    LET base_pot_odds == calculate_pot_odds(p, cb, pot_size)
        stage_multiplier == IF stage = "preflop" THEN FInt(3)
                            ELSE IF stage = "flop" THEN FInt(2)
                            ELSE IF stage = "turn" THEN Frac(15, 10)
                            ELSE FInt(1)
        hand_playability == calculate_hand_playability(hand, community, stage)
    IN  FMul(FMul(base_pot_odds, stage_multiplier),
             FAdd(Frac(5, 10), FMul(hand_playability, Frac(5, 10))))

\* The values random.random() takes here, in hundredths
RandomDraws == {0, 25, 99}

\* a + random.random() * width, all in hundredths
random_between(a, width, u) == Frac(a * 100 + width * u, 10000)

\* weights of _calculate_decision_score, in tenths: hand strength, range
\* advantage, position, pot odds, implied odds
score_weights(stage) ==
    IF stage = "preflop" THEN <<3, 3, 2, 1, 1>>
    ELSE IF stage = "flop" THEN <<4, 2, 2, 1, 1>>
    ELSE IF stage = "turn" THEN <<5, 2, 1, 1, 1>>
    ELSE <<6, 2, 1, 1, 0>>

\* _calculate_decision_score
calculate_decision_score(hand_strength, range_advantage, position_advantage, pot_odds, implied_odds, stage) ==
    LET w == score_weights(stage)
        normalized_pot_odds == FSub(FInt(1), FMin(FInt(1), FMul(pot_odds, FInt(5))))
        normalized_implied_odds == FSub(FInt(1), FMin(FInt(1), FMul(implied_odds, FInt(3))))
    IN  FAdd(FAdd(FAdd(FAdd(FMul(hand_strength, Frac(w[1], 10)),
                            FMul(range_advantage, Frac(w[2], 10))),
                       FMul(position_advantage, Frac(w[3], 10))),
                  FMul(normalized_pot_odds, Frac(w[4], 10))),
             FMul(normalized_implied_odds, Frac(w[5], 10)))

\* _calculate_bet_amount; u is its random draw
calculate_bet_amount(p, pot_size, decision_score, mr, u, rounds_up) ==
    LET bet_fraction == IF exceeds(decision_score, Frac(8, 10), rounds_up)
                        THEN random_between(75, 25, u)
                        ELSE IF exceeds(decision_score, Frac(6, 10), rounds_up)
                        THEN random_between(50, 25, u)
                        ELSE random_between(33, 17, u)
        bet_amount == FFloor(FMul(FInt(pot_size), bet_fraction))
    IN  Min(Max(mr, bet_amount), p.chips)

\* _calculate_raise_amount; u is its random draw
calculate_raise_amount(p, cb, decision_score, mr, u, rounds_up) ==
    LET raise_multiple == IF exceeds(decision_score, Frac(8, 10), rounds_up)
                          THEN random_between(300, 100, u)
                          ELSE IF exceeds(decision_score, Frac(6, 10), rounds_up)
                          THEN random_between(200, 100, u)
                          ELSE random_between(150, 50, u)
        raise_amount == FFloor(FMul(FInt(cb), raise_multiple))
    IN  Min(Max(mr, raise_amount), p.chips)

\* _calculate_bluff_bet; u is its random draw
calculate_bluff_bet(p, pot_size, mr, u) ==
    LET bluff_fraction == random_between(33, 17, u)
        bluff_amount == FFloor(FMul(FInt(pot_size), bluff_fraction))
    IN  Min(Max(mr, bluff_amount), p.chips)

\* "if call_amount <= player.chips: CALL else: ALL_IN"
call_or_all_in(p, call_amount) ==
    IF call_amount <= p.chips THEN Decision(CALL, call_amount)
    ELSE Decision(ALL_IN, p.chips)

\* _preflop_strategy; up says how a score equal to a threshold rounds
preflop_strategy(p, cb, pot_size, decision_score, call_amount, mr, u_amount, up) ==
    IF call_amount > 0
    THEN IF exceeds(decision_score, Frac(7, 10), up)
         THEN Decision(RAISE, calculate_raise_amount(p, cb, decision_score, mr, u_amount, up))
         ELSE IF exceeds(decision_score, Frac(4, 10), up)
         THEN call_or_all_in(p, call_amount)
         ELSE Decision(FOLD, 0)
    ELSE IF exceeds(decision_score, Frac(6, 10), up)
         THEN Decision(RAISE, calculate_bet_amount(p, pot_size, decision_score, mr, u_amount, up))
         ELSE Decision(CHECK, 0)

\* _postflop_strategy; u_amount is the draw of the amount, u_mix the draw
\* of the mixed strategy, up and up_play say how a score and a playability
\* equal to a threshold round.  The result of _calculate_bet_sizing is not
\* used.
postflop_strategy(p, hand, community, cb, pot_size, decision_score, call_amount, mr, stage, u_amount, u_mix, up, up_play) ==
    IF call_amount > 0
    THEN IF exceeds(decision_score, Frac(8, 10), up)
         THEN IF u_mix < 30
              THEN call_or_all_in(p, call_amount)
              ELSE Decision(RAISE,
                            calculate_raise_amount(p, cb, decision_score, mr, u_amount, up))
         ELSE IF exceeds(decision_score, Frac(5, 10), up)
         THEN call_or_all_in(p, call_amount)
         ELSE IF /\ exceeds(calculate_hand_playability(hand, community, stage),
                            Frac(7, 10), up_play)
                 /\ u_mix < 20
         THEN call_or_all_in(p, call_amount)
         ELSE Decision(FOLD, 0)
    ELSE IF exceeds(decision_score, Frac(7, 10), up)
         THEN IF u_mix < 20
              THEN Decision(CHECK, 0)
              ELSE Decision(RAISE,
                            calculate_bet_amount(p, pot_size, decision_score, mr, u_amount, up))
         ELSE IF exceeds(decision_score, Frac(4, 10), up)
         THEN Decision(CHECK, 0)
         ELSE IF u_mix < 10
         THEN Decision(RAISE, calculate_bluff_bet(p, pot_size, mr, u_amount))
         ELSE Decision(CHECK, 0)

\* _gto_mixed_strategy
gto_mixed_strategy(p, hand, community, cb, mr, pot_size, hand_strength, range_advantage, position_advantage, pot_odds, implied_odds, stage, u_amount, u_mix, up, up_play) ==
    LET call_amount == cb - p.current_bet
        decision_score == calculate_decision_score(hand_strength, range_advantage,
                              position_advantage, pot_odds, implied_odds, stage)
    IN  IF stage = "preflop"
        THEN preflop_strategy(p, cb, pot_size, decision_score, call_amount, mr, u_amount, up)
        ELSE postflop_strategy(p, hand, community, cb, pot_size, decision_score,
                               call_amount, mr, stage, u_amount, u_mix, up, up_play)

\* GTOStrategy.decide
gto_decide(p, hand, community, cb, mr, pot_size, u_amount, u_mix, up, up_play) ==
    LET game_stage == get_game_stage(community)
    IN  gto_mixed_strategy(p, hand, community, cb, mr, pot_size,
            calculate_gto_hand_strength(hand, community, game_stage),
            calculate_range_advantage(hand, game_stage),
            calculate_position_advantage,
            calculate_pot_odds(p, cb, pot_size),
            calculate_implied_odds(p, hand, community, cb, pot_size, game_stage),
            game_stage, u_amount, u_mix, up, up_play)

(***************************************************************************)
(* gtoStrategy.py: MonteCarloGTOStrategy                                   *)
(***************************************************************************)

\* _simulate_fold
simulate_fold == FInt(0)

\* hand_strength as each _simulate_* method computes it
simulated_hand_strength(hand, community) ==
    calculate_gto_hand_strength(hand, community, get_game_stage(community))

\* the return of _simulate_check
check_ev(hand_strength, pot_size) ==
    FMul(FMul(FMul(hand_strength, calculate_position_advantage), FInt(pot_size)),
         Frac(1, 10))

\* _simulate_check
simulate_check(hand, community, pot_size) ==
    check_ev(simulated_hand_strength(hand, community), pot_size)

\* the "simplified calculation" of _simulate_call
call_ev(hand_strength, pot_size, call_amount) ==
    FSub(FMul(hand_strength, FInt(pot_size)),
         FMul(FSub(FInt(1), hand_strength), FInt(call_amount)))

\* _simulate_call
simulate_call(p, hand, community, cb, pot_size) ==
    IF cb - p.current_bet <= 0 THEN simulate_check(hand, community, pot_size)
    ELSE call_ev(simulated_hand_strength(hand, community), pot_size, cb - p.current_bet)

\* the expected value both _simulate_raise and _simulate_allin compute,
\* for their fold equity and amount
equity_ev(fold_equity, hand_strength, pot_size, amount) ==
    FAdd(FMul(fold_equity, FInt(pot_size)),
         FMul(FSub(FInt(1), fold_equity),
              FSub(FMul(hand_strength, FInt(pot_size + amount)),
                   FMul(FSub(FInt(1), hand_strength), FInt(amount)))))

\* the return of _simulate_raise: the hand strength is the decision score
\* handed to _calculate_raise_amount, u is the draw of that method
raise_ev(p, hand_strength, cb, mr, pot_size, u, up) ==
    equity_ev(Frac(3, 10), hand_strength, pot_size,
              calculate_raise_amount(p, cb, hand_strength, mr, u, up))

\* _simulate_raise
simulate_raise(p, hand, community, cb, mr, pot_size, u, up) ==
    raise_ev(p, simulated_hand_strength(hand, community), cb, mr, pot_size, u, up)

\* _simulate_allin
simulate_allin(p, hand, community, pot_size) ==
    equity_ev(Frac(4, 10), simulated_hand_strength(hand, community), pot_size, p.chips)

\* _monte_carlo_simulation: the mean of each action's simulated values, in
\* the order of the dictionary.  Only the raise draws at random, and its
\* value is linear in the amount raised, so the mean is the value at some
\* amount between the least and the greatest drawn: u stands for it.
monte_carlo_simulation(p, hand, community, cb, mr, pot_size, u, up) ==
    << [action |-> FOLD, ev |-> simulate_fold],
       [action |-> CHECK, ev |-> simulate_check(hand, community, pot_size)],
       [action |-> CALL, ev |-> simulate_call(p, hand, community, cb, pot_size)],
       [action |-> RAISE, ev |-> simulate_raise(p, hand, community, cb, mr, pot_size, u, up)],
       [action |-> ALL_IN, ev |-> simulate_allin(p, hand, community, pot_size)] >>

\* max(action_ev.items(), key=...): the first entry no other one exceeds
RECURSIVE best_action(_, _, _)
best_action(action_ev, k, best) ==
    IF k > Len(action_ev) THEN best
    ELSE best_action(action_ev, k + 1,
                     IF FLess(action_ev[best].ev, action_ev[k].ev) THEN k ELSE best)

\* _calculate_optimal_raise
calculate_optimal_raise(p, mr, pot_size, ev) ==
    LET optimal_fraction == FAdd(Frac(5, 10), FMul(ev, Frac(5, 10)))
        raise_amount == FFloor(FMul(FInt(pot_size), optimal_fraction))
    IN  Min(Max(mr, raise_amount), p.chips)

\* MonteCarloGTOStrategy.decide, lines 673-683: the action of the highest
\* expected value and its amount
decide_from(p, mr, pot_size, action_ev) ==
    LET best == action_ev[best_action(action_ev, 2, 1)]
    IN  IF best.action = RAISE
        THEN Decision(RAISE, calculate_optimal_raise(p, mr, pot_size, best.ev))
        ELSE Decision(best.action, 0)

\* MonteCarloGTOStrategy.decide
monte_carlo_decide(p, hand, community, cb, mr, pot_size, u, up) ==
    decide_from(p, mr, pot_size,
                monte_carlo_simulation(p, hand, community, cb, mr, pot_size, u, up))

(***************************************************************************)
(* A policy asked for one decision (specification SpecPolicy)              *)
(***************************************************************************)

\* The cards a seat may hold, and the board: its first 0, 3, 4 or 5 cards
\* lie on the table.
HoleDeck == {Card(r, s) : r \in {TWO, 6, ACE}, s \in {"HEARTS", "DIAMONDS"}}

Board == << Card(THREE, "HEARTS"), Card(FOUR, "HEARTS"), Card(FIVE, "DIAMONDS"),
            Card(THREE, "DIAMONDS"), Card(FIVE, "CLUBS") >>

\* The hand of the seat that is asked and the board of the snapshot
hole_cards == SubSeq(cards, 1, 2)

board_cards == SubSeq(cards, 3, Len(cards))

\* game_state as _betting_round builds it, and the seat's cards: a seat
\* that has not folded and holds chips faces a bet or none.  No policy
\* looks at the order of the two hole cards: the higher one comes first.
PolicyInit ==
    /\ \E chips \in {10, 100}, wager \in {0, 20} :
          players = [i \in Seats |-> IF i = 0
                                     THEN [NewPlayer(chips) EXCEPT !.current_bet = wager]
                                     ELSE NewPlayer(0)]
    /\ pot \in {30, 90}
    /\ current_bet \in {0, 20, 50}
    /\ min_raise \in {big_blind, 50}
    /\ players[0].current_bet <= current_bet
    /\ current_bet <= pot
    /\ dealer_position = 0
    /\ community_cards \in {0, 3, 4, 5}
    /\ \E c1, c2 \in HoleDeck :
          /\ c1 # c2
          /\ c1.rank >= c2.rank
          /\ (c1.rank = c2.rank => c1.suit = "HEARTS")
          /\ cards = <<c1, c2>> \o SubSeq(Board, 1, community_cards)
    /\ hand_history = <<>>
    /\ pc = "betting"
    /\ round = 0
    /\ last_raiser = None
    /\ current_pos = 0
    /\ actions_taken = 0
    /\ winners = <<>>
    /\ paid = <<>>
    /\ start_total = 0
    /\ last_aggressor = None
    /\ since_raise = 0
    /\ answer = NoAnswer
    /\ score = NoScore
    /\ reorders = 0
    /\ hands = <<>>

\* strategy.decide(player, game_state) returned d
Returned(d) ==
    /\ answer = NoAnswer
    /\ answer' = [seat |-> current_pos, action |-> d.action, amount |-> d.amount]
    /\ UNCHANGED <<players, pot, current_bet, min_raise, dealer_position,
                   community_cards, hand_history, pc, round, last_raiser,
                   current_pos, actions_taken, winners, paid, start_total,
                   last_aggressor, since_raise, eval_vars>>

\* BasicStrategy.decide: raise facing a bet above 0.7 by half the pot, call
\* above 0.3; open above 0.6 by 0.3 of the pot
AskBasic ==
    Returned(heuristic_decide(players[current_pos], hole_cards, current_bet, min_raise, pot,
                              70, 50, 30, 60, 30))

\* AggressiveStrategy.decide: 0.5 and 0.75 of the pot, 0.2; 0.4 and half the pot
AskAggressive ==
    Returned(heuristic_decide(players[current_pos], hole_cards, current_bet, min_raise, pot,
                              50, 75, 20, 40, 50))

\* ConservativeStrategy.decide: 0.6 and 0.3 of the pot, 0.4; 0.7 and 0.2 of the pot
AskConservative ==
    Returned(heuristic_decide(players[current_pos], hole_cards, current_bet, min_raise, pot,
                              60, 30, 40, 70, 20))

AskGTO(u_amount, u_mix, up, up_play) ==
    Returned(gto_decide(players[current_pos], hole_cards, board_cards,
                        current_bet, min_raise, pot, u_amount, u_mix, up, up_play))

AskMonteCarlo(u, up) ==
    Returned(monte_carlo_decide(players[current_pos], hole_cards, board_cards,
                                current_bet, min_raise, pot, u, up))

PolicyNext ==
    \/ AskBasic
    \/ AskAggressive
    \/ AskConservative
    \/ \E u_amount, u_mix \in RandomDraws, up, up_play \in BOOLEAN :
          AskGTO(u_amount, u_mix, up, up_play)
    \/ \E u \in RandomDraws, up \in BOOLEAN : AskMonteCarlo(u, up)

SpecPolicy == PolicyInit /\ [][PolicyNext]_vars

(***************************************************************************)
(* Claims about the policies                                               *)
(***************************************************************************)

\* The seat that was asked faces a bet: the current bet exceeds its wager.
FacingBet == current_bet > players[current_pos].current_bet

\* C25: when BasicStrategy, AggressiveStrategy or ConservativeStrategy
\* returns RAISE, the amount is at least the min-raise of the snapshot and
\* at most the chips of the seat asked.
C25_HeuristicRaiseInRange ==
    [][((AskBasic \/ AskAggressive \/ AskConservative) /\ answer'.action = RAISE) =>
          /\ answer'.amount >= min_raise
          /\ answer'.amount <= players[current_pos].chips
    ]_vars

\* C16: no policy returns Check when the current bet of the snapshot
\* exceeds the street wager of the seat.
C16_NoCheckFacingBet == (Answered(CHECK) /\ pc = "betting") => ~FacingBet

====
